---- MODULE Spec2Model ----
(***************************************************************************)
(* Park Passes: pricing windows, the pass life cycle, the discount stack   *)
(* and the voucher ledger, as state machines over the stored records.      *)
(*                                                                         *)
(* Dates are day numbers.  Money is counted in units of 1/10000 of a       *)
(* dollar, so that a two-decimal amount is a multiple of 100 and a whole   *)
(* percentage of a two-decimal amount is an exact integer.                 *)
(***************************************************************************)
EXTENDS Integers, FiniteSets, Sequences, TLC

(* ---------------------------------------------------------------- bounds *)
MaxDay == 2
MaxWindows == 2
MaxPasses == 1
MaxCancellations == 1
MaxVouchers == 2
MaxPin == 1
MaxTransactions == 2
MaxStart == 1
MaxWriters == 2
MaxStored == 3
MaxToday == 16
MaxNotified == 3
DaysPerMonth == 2
MaxMonths == 3
MaxSold == 2
MaxReports == 3

Days == 0..MaxDay
PassTypes == {"annual", "holiday"}

(* Python's None: a primary key not yet assigned, a null column *)
None == -1

VARIABLES
    today,          \* timezone.now().date()
    windows,        \* PassTypePricingWindow table: pk -> row
    winCall,        \* the last PassTypePricingWindow.save call and its outcome
    passes,         \* Pass table: pk -> row
    cancellations,  \* PassCancellation table: pk -> park_pass id
    passCall,       \* the last pass operation, its instance and its outcome
    vouchers,       \* Voucher table: pk -> row
    transactions,   \* VoucherTransaction table: park_pass id -> row
    arg,            \* the receiver a property or method is evaluated on
    ret,            \* what the evaluation returned or raised
    writers,        \* concurrent requests: each writer's instance and position
    reports         \* Report table: pk -> row

vars == <<today, windows, winCall, passes, cancellations, passCall,
          vouchers, transactions, arg, ret, writers, reports>>

windowVars == <<windows, winCall>>
passVars == <<passes, cancellations, passCall>>
voucherVars == <<vouchers, transactions>>
evalVars == <<arg, ret>>

NoCall == [op |-> "none"]

(* ------------------------------------------------------------ date values *)
(* A value assigned to a DateField attribute is a datetime.date or a       *)
(* datetime.datetime (tod: the time of day, 0 = midnight).                 *)
DateInputs ==
    [kind : {"date"}, day : Days, tod : {0}] \cup
    [kind : {"datetime"}, day : Days, tod : {0, 1}]

\* an attribute left as None
NoneValue == [kind |-> "None", day |-> None, tod |-> 0]

\* a >= b for two values of the same kind
DateGe(a, b) == a.day > b.day \/ (a.day = b.day /\ a.tod >= b.tod)

(* ------------------------------------------------------- pricing windows *)
DefaultPricingWindowCount(self) ==
    Cardinality({w \in DOMAIN windows :
                    /\ windows[w].pass_type = self.pass_type
                    /\ windows[w].date_expiry = None
                    /\ w # self.pk})

\* The same validation with the threshold off by one.
PassTypePricingWindowValidate_OffByOne(self) ==
    IF self.date_expiry.kind = "None"
    THEN IF DefaultPricingWindowCount(self) > 1 THEN "ValidationError"
         ELSE IF self.date_start.kind = "datetime" THEN "TypeError"
         ELSE IF self.date_start.day > today THEN "ValidationError"
         ELSE "saved"
    ELSE IF self.date_start.kind # self.date_expiry.kind THEN "TypeError"
         ELSE IF DateGe(self.date_start, self.date_expiry) THEN "ValidationError"
         ELSE IF self.date_expiry.kind = "date" THEN "AttributeError"
         ELSE IF self.date_expiry.day <= today THEN "ValidationError"
         ELSE "saved"

(* What PassTypePricingWindow.save does before super().save(): the         *)
(* exception it raises, or "saved".  Ordering a date against a datetime    *)
(* is a TypeError; a date has no .date() method.                           *)
PassTypePricingWindowValidate(self) ==
    IF self.date_expiry.kind = "None"
    THEN IF DefaultPricingWindowCount(self) > 0 THEN "ValidationError"
         ELSE IF self.date_start.kind = "datetime" THEN "TypeError"
         ELSE IF self.date_start.day > today THEN "ValidationError"
         ELSE "saved"
    ELSE IF self.date_start.kind # self.date_expiry.kind THEN "TypeError"
         ELSE IF DateGe(self.date_start, self.date_expiry) THEN "ValidationError"
         ELSE IF self.date_expiry.kind = "date" THEN "AttributeError"
         ELSE IF self.date_expiry.day <= today THEN "ValidationError"
         ELSE "saved"

\* DateField.to_python: the stored column is the date part
ToDate(v) == v.day

PassTypePricingWindowRow(self) ==
    [pass_type |-> self.pass_type,
     date_start |-> ToDate(self.date_start),
     date_expiry |-> ToDate(self.date_expiry)]

PassTypePricingWindowSave ==
    \E pk \in {None} \cup DOMAIN windows, pt \in PassTypes,
       ds \in DateInputs, de \in {NoneValue} \cup DateInputs :
        LET self == [pk |-> pk, pass_type |-> pt, date_start |-> ds, date_expiry |-> de]
            outcome == PassTypePricingWindowValidate(self)
            newpk == IF pk = None THEN Cardinality(DOMAIN windows) + 1 ELSE pk
        IN  /\ pk = None => Cardinality(DOMAIN windows) < MaxWindows
            /\ IF outcome = "saved"
               THEN /\ windows' = [w \in DOMAIN windows \cup {newpk} |->
                                      IF w = newpk THEN PassTypePricingWindowRow(self)
                                      ELSE windows[w]]
                    /\ winCall' = [op |-> "save", pk |-> newpk, pass_type |-> pt,
                                   date_expiry |-> ToDate(de), outcome |-> outcome]
               ELSE /\ windows' = windows
                    /\ winCall' = [op |-> "save", pk |-> pk, pass_type |-> pt,
                                   date_expiry |-> ToDate(de), outcome |-> outcome]
            /\ UNCHANGED <<today, passVars, voucherVars, evalVars, writers, reports>>

\* the clock: timezone.now() moves on between requests
Tick ==
    /\ today < MaxDay
    /\ today' = today + 1
    /\ UNCHANGED <<windowVars, passVars, voucherVars, evalVars, writers, reports>>

(* ------------------------------------------------------------------ text *)
RECURSIVE Digits(_)
\* str(n) for n >= 0, one element per decimal digit
Digits(n) == IF n < 10 THEN <<n>> ELSE Digits(n \div 10) \o <<n % 10>>

RECURSIVE ZeroPad(_, _)
\* the "0{width}d" format: pad with leading zeros up to the width, never truncate
ZeroPad(s, width) == IF Len(s) >= width THEN s ELSE ZeroPad(<<0>> \o s, width)

(* ---------------------------------------------------------------- passes *)
FUTURE == "FU"
CURRENT == "CU"
EXPIRED == "EX"
CANCELLED == "CA"
VALID == "VA"

(* PassTypePricingWindowOption rows a pass can select: duration in days,   *)
(* price with two decimals                                                 *)
Options == <<[duration |-> 1, price |-> 100000], [duration |-> 2, price |-> 200500]>>

\* the start dates a purchaser picks and the expiry dates a caller may put on the instance
StartDays == 0..MaxStart
SuppliedExpiry == {0, MaxDay}

\* what can go wrong while the pdf is generated and the email is sent
Failures == {"none", "template", "email"}

\* f"PP{self.pk:06d}"
PassNumber(pk) == <<"P", "P">> \o ZeroPad(Digits(pk), 6)

\* PassCancellation.objects.filter(park_pass=self).count()
CancellationCount(pk, table) == Cardinality({c \in DOMAIN table : table[c] = pk})

\* table: the PassCancellation rows at the time of the call
SetProcessingStatus(self, table) ==
    IF CancellationCount(self.pk, table) > 0 THEN CANCELLED ELSE VALID

\* the columns of the in-memory instance
PassRow(self) ==
    [option |-> self.option, date_start |-> self.date_start,
     date_expiry |-> self.date_expiry, pass_number |-> self.pass_number,
     processing_status |-> self.processing_status, in_cart |-> self.in_cart,
     purchase_email_sent |-> self.purchase_email_sent,
     renew_automatically |-> self.renew_automatically]

\* a stored row loaded into an instance
PassInstance(pk) ==
    [pk |-> pk, option |-> passes[pk].option, date_start |-> passes[pk].date_start,
     date_expiry |-> passes[pk].date_expiry, pass_number |-> passes[pk].pass_number,
     processing_status |-> passes[pk].processing_status, in_cart |-> passes[pk].in_cart,
     purchase_email_sent |-> passes[pk].purchase_email_sent,
     renew_automatically |-> passes[pk].renew_automatically]

\* the expiry date the caller supplied is kept
PassExpiry_Keep(self) == self.date_expiry

\* self.date_start + timedelta(days=self.option.duration)
PassExpiry(self) == self.date_start + Options[self.option].duration

\* the number is assigned from the id on every save
PassNumberAfterSave_ZeroBased(self, pk) == PassNumber(pk - 1)

\* if not self.pass_number: self.pass_number = f"PP{self.pk:06d}"
PassNumberAfterSave(self, pk) ==
    IF self.pass_number = <<>> THEN PassNumber(pk) ELSE self.pass_number

\* the primary key the instance has once super().save() has run
PassPk(self) == IF self.pk = None THEN Len(passes) + 1 ELSE self.pk

\* "if not Pass.CANCELLED == self.processing_status: if not self.in_cart:"
PassNotifies(self, table) ==
    SetProcessingStatus(self, table) # CANCELLED /\ ~self.in_cart

(* Pass.save(): the exception it raises, or "saved".  table is the         *)
(* PassCancellation rows at the time of the call; failure is what goes     *)
(* wrong in this call: no PassTemplate row, or the email cannot be sent.   *)
PassSaveOutcome(self, failure, table) ==
    IF ~PassNotifies(self, table) \/ failure = "none" THEN "saved"
    ELSE IF failure = "template" THEN "PassTemplateDoesNotExist"
    ELSE "SendPassPurchasedEmailNotificationFailed"

\* generate_park_pass_pdf() ran to its end in this save
PdfGenerated(self, failure, table) == PassNotifies(self, table) /\ failure # "template"

\* every notifying save sends the 'purchased' notification
NotificationSent_AlwaysPurchased(self, failure, table) ==
    IF PassNotifies(self, table) /\ failure = "none" THEN "purchased" ELSE "none"

(* the notification this save sent: "if not self.purchase_email_sent:      *)
(* send_purchased_notification_email() else send_updated_..."              *)
NotificationSent(self, failure, table) ==
    IF PassNotifies(self, table) /\ failure = "none"
    THEN IF self.purchase_email_sent THEN "updated" ELSE "purchased"
    ELSE "none"

(* Pass.save(update_fields): the row it leaves stored.  The first          *)
(* super().save writes the columns named (all of them when none is         *)
(* named); super().save(force_update=True) writes them all and is          *)
(* reached only without an exception.                                      *)
PassSaveRow(self, updateFields, failure, table) ==
    IF PassSaveOutcome(self, failure, table) = "saved"
    THEN [PassRow(self) EXCEPT
             !.date_expiry = PassExpiry(self),
             !.processing_status = SetProcessingStatus(self, table),
             !.pass_number = PassNumberAfterSave(self, PassPk(self)),
             !.purchase_email_sent = (PassNotifies(self, table) \/ self.purchase_email_sent)]
    ELSE IF updateFields = "all"
    THEN [PassRow(self) EXCEPT
             !.date_expiry = PassExpiry(self),
             !.processing_status = SetProcessingStatus(self, table)]
    ELSE [passes[self.pk] EXCEPT !.renew_automatically = self.renew_automatically]

StorePass(pk, row) ==
    [p \in DOMAIN passes \cup {pk} |-> IF p = pk THEN row ELSE passes[p]]

\* Pass.save() of a new instance, or of a stored pass the caller has edited
PassSave ==
    \E pk \in {None} \cup DOMAIN passes, o \in DOMAIN Options, ds \in StartDays,
       de \in SuppliedExpiry, cart \in BOOLEAN, renew \in BOOLEAN, failure \in Failures :
        LET self == IF pk = None
                    THEN [pk |-> None, option |-> o, date_start |-> ds, date_expiry |-> de,
                          pass_number |-> <<>>, processing_status |-> "",
                          in_cart |-> cart, purchase_email_sent |-> FALSE,
                          renew_automatically |-> renew]
                    ELSE [PassInstance(pk) EXCEPT !.option = o, !.date_start = ds,
                             !.date_expiry = de, !.in_cart = cart,
                             !.renew_automatically = renew]
        IN  /\ pk = None => Len(passes) < MaxPasses
            /\ passes' = StorePass(PassPk(self), PassSaveRow(self, "all", failure, cancellations))
            /\ passCall' = [pk |-> PassPk(self),
                            pass_number |-> PassNumberAfterSave(self, PassPk(self)),
                            outcome |-> PassSaveOutcome(self, failure, cancellations),
                            pdf |-> PdfGenerated(self, failure, cancellations),
                            sent |-> NotificationSent(self, failure, cancellations)]
            /\ UNCHANGED <<today, windowVars, cancellations, voucherVars, evalVars, writers, reports>>

\* the lowest primary key not in use (which key a row gets carries no meaning)
NewCancellationPk ==
    CHOOSE c \in 1..MaxCancellations : c \notin DOMAIN cancellations /\
        \A d \in 1..MaxCancellations : d \notin DOMAIN cancellations => c <= d

(* PassCancellation.save(): insert or update the row (park_pass is a       *)
(* one-to-one column, so a second row for the pass is an IntegrityError),  *)
(* then park_pass.processing_status = CANCELLED and park_pass.save()       *)
PassCancellationSave ==
    \E c \in {None} \cup DOMAIN cancellations, p \in DOMAIN passes, failure \in Failures :
        LET pk == IF c = None THEN NewCancellationPk ELSE c
            taken == \E d \in DOMAIN cancellations : d # c /\ cancellations[d] = p
            stored == [d \in DOMAIN cancellations \cup {pk} |->
                          IF d = pk THEN p ELSE cancellations[d]]
            self == [PassInstance(p) EXCEPT !.processing_status = CANCELLED]
        IN  /\ c = None => Cardinality(DOMAIN cancellations) < MaxCancellations
            /\ IF taken
               THEN /\ UNCHANGED <<passes, cancellations>>
                    /\ passCall' = [pk |-> p, pass_number |-> passes[p].pass_number,
                                    outcome |-> "IntegrityError",
                                    pdf |-> FALSE, sent |-> "none"]
               ELSE /\ cancellations' = stored
                    /\ passes' = StorePass(p, PassSaveRow(self, "all", failure, stored))
                    /\ passCall' = [pk |-> p, pass_number |-> PassNumberAfterSave(self, p),
                                    outcome |-> PassSaveOutcome(self, failure, stored),
                                    pdf |-> PdfGenerated(self, failure, stored),
                                    sent |-> NotificationSent(self, failure, stored)]
            /\ UNCHANGED <<today, windowVars, voucherVars, evalVars, writers, reports>>

(* PassCancellation.delete(): delete the row, then                         *)
(* park_pass.set_processing_status() and park_pass.save()                  *)
PassCancellationDelete ==
    \E c \in DOMAIN cancellations, failure \in Failures :
        LET p == cancellations[c]
            remaining == [d \in DOMAIN cancellations \ {c} |-> cancellations[d]]
            park_pass == PassInstance(p)
            self == [park_pass EXCEPT
                        !.processing_status = SetProcessingStatus(park_pass, remaining)]
        IN  /\ cancellations' = remaining
            /\ passes' = StorePass(p, PassSaveRow(self, "all", failure, remaining))
            /\ passCall' = [pk |-> p, pass_number |-> PassNumberAfterSave(self, p),
                            outcome |-> PassSaveOutcome(self, failure, remaining),
                            pdf |-> PdfGenerated(self, failure, remaining),
                            sent |-> NotificationSent(self, failure, remaining)]
            /\ UNCHANGED <<today, windowVars, voucherVars, evalVars, writers, reports>>

(* can_cancel_automatic_renewal: date_expiry > timezone.now() + 1 day.     *)
(* The right-hand side is a datetime; a date_expiry that is a date (a      *)
(* loaded instance, or one whose date_start is a date) cannot be ordered   *)
(* against it.  For a datetime date_expiry, later tells whether its time   *)
(* of day is after the current one.                                        *)
CanCancelAutomaticRenewal(self, kind, later) ==
    IF kind = "date" THEN "TypeError"
    ELSE IF self.date_expiry > today + 1 \/ (self.date_expiry = today + 1 /\ later)
         THEN "True" ELSE "False"

(* Pass.cancel_automatic_renewal() *)
PassCancelAutomaticRenewal ==
    \E pk \in DOMAIN passes, kind \in {"date", "datetime"}, later \in BOOLEAN,
       failure \in Failures :
        LET self == PassInstance(pk)
            can == IF ~self.renew_automatically THEN "False"
                   ELSE CanCancelAutomaticRenewal(self, kind, later)
            off == [self EXCEPT !.renew_automatically = FALSE]
        IN  /\ IF can = "True"
               THEN /\ passes' = StorePass(pk, PassSaveRow(off, "renew_automatically",
                                                           failure, cancellations))
                    /\ passCall' = [pk |-> pk,
                                    pass_number |-> PassNumberAfterSave(off, pk),
                                    outcome |-> PassSaveOutcome(off, failure, cancellations),
                                    pdf |-> PdfGenerated(off, failure, cancellations),
                                    sent |-> NotificationSent(off, failure, cancellations)]
               ELSE /\ passes' = passes
                    /\ passCall' = [pk |-> pk, pass_number |-> self.pass_number,
                                    outcome |-> IF can = "False" THEN "ValidationError"
                                                ELSE can,
                                    pdf |-> FALSE, sent |-> "none"]
            /\ UNCHANGED <<today, windowVars, cancellations, voucherVars, evalVars, writers, reports>>

PassNext ==
    \/ PassSave
    \/ PassCancellationSave
    \/ PassCancellationDelete
    \/ PassCancelAutomaticRenewal

(* ------------------------------------------------- properties of a pass *)
(* The receiver of a property: a Pass with the rows that point at it.      *)
(* concession and discount_code are the percentage of the attached usage;  *)
(* transaction is the VoucherTransaction whose park_pass is this pass.     *)
NoRow == [present |-> FALSE]

(* The reverse accessors a Pass instance answers to.  PassCancellation     *)
(* names its own (related_name="cancellation"); VoucherTransaction.park_pass *)
(* declares no related_name, so Django names it after the model.           *)
PassAttributes(self) ==
    (IF self.cancellation THEN {"cancellation"} ELSE {}) \cup
    (IF self.concession.present THEN {"concession_usage"} ELSE {}) \cup
    (IF self.discount_code.present THEN {"discount_code_usage"} ELSE {}) \cup
    (IF self.transaction.present THEN {"vouchertransaction"} ELSE {})

\* hasattr(self, name)
HasAttr(self, name) == name \in PassAttributes(self)

IsCancelled(self) == HasAttr(self, "cancellation")

\* the expiry comparison made strict
PassStatus_Strict(self) ==
    IF IsCancelled(self) THEN CANCELLED
    ELSE IF self.date_start > today THEN FUTURE
    ELSE IF self.date_expiry < today THEN EXPIRED
    ELSE CURRENT

\* Pass.status
PassStatus(self) ==
    IF IsCancelled(self) THEN CANCELLED
    ELSE IF self.date_start > today THEN FUTURE
    ELSE IF self.date_expiry <= today THEN EXPIRED
    ELSE CURRENT

\* Pass.price
PassPrice(self) == Options[self.option].price

\* discount_as_amount of a concession or of a discount code: a percentage of the price
DiscountAsAmount(percentage, price) == (price * percentage) \div 100

PriceAfterConcessionApplied(self) ==
    IF HasAttr(self, "concession_usage")
    THEN PassPrice(self) - DiscountAsAmount(self.concession.percentage, PassPrice(self))
    ELSE PassPrice(self)

PriceAfterDiscountCodeApplied(self) ==
    IF HasAttr(self, "discount_code_usage")
    THEN PriceAfterConcessionApplied(self)
            - DiscountAsAmount(self.discount_code.percentage, PriceAfterConcessionApplied(self))
    ELSE PriceAfterConcessionApplied(self)

(* Pass.price_after_voucher_applied.  VoucherTransaction defines no        *)
(* balance(), so the branch that calls it is an AttributeError.            *)
PriceAfterVoucherApplied(self) ==
    IF HasAttr(self, "voucher_transaction")
    THEN [outcome |-> "AttributeError", value |-> 0]
    ELSE [outcome |-> "returned", value |-> PriceAfterDiscountCodeApplied(self)]

(* Decimal.quantize(Decimal("0.00")): to two decimals, a tie to the even   *)
(* neighbour (the default context rounds half even)                        *)
Quantize(x) ==
    LET sign == IF x < 0 THEN -1 ELSE 1
        a == IF x < 0 THEN -x ELSE x
        q == a \div 100
        r == a % 100
        up == r > 50 \/ (r = 50 /\ q % 2 = 1)
    IN  sign * 100 * (IF up THEN q + 1 ELSE q)

\* Pass.price_after_all_discounts
PriceAfterAllDiscounts(self) ==
    LET v == PriceAfterVoucherApplied(self)
    IN  IF v.outcome = "returned"
        THEN [outcome |-> "returned", value |-> Quantize(v.value)]
        ELSE v

Percentages == {5, 10}
Usages == {NoRow} \cup [present : {TRUE}, percentage : Percentages]
MoneyValues == {-50000, 0, 50000, 100000}
\* a transaction that pays for a pass
TransactionRows == {NoRow} \cup [present : {TRUE}, credit : {0, 20000}, debit : {0, 50000}]

PassReceivers ==
    [option : DOMAIN Options, date_start : Days, date_expiry : 0..(MaxDay + 2),
     cancellation : BOOLEAN, concession : {NoRow}, discount_code : {NoRow},
     transaction : {NoRow}]
    \cup
    [option : DOMAIN Options, date_start : {0}, date_expiry : {1},
     cancellation : {FALSE}, concession : Usages, discount_code : Usages,
     transaction : TransactionRows]

EvalStatus ==
    /\ ret = NoCall
    /\ ret' = [op |-> "status", value |-> PassStatus(arg)]
    /\ UNCHANGED <<today, windowVars, passVars, voucherVars, arg, writers, reports>>

EvalPriceAfterVoucherApplied ==
    /\ ret = NoCall
    /\ ret' = [op |-> "price_after_voucher_applied"] @@ PriceAfterVoucherApplied(arg)
    /\ UNCHANGED <<today, windowVars, passVars, voucherVars, arg, writers, reports>>

EvalPriceAfterAllDiscounts ==
    /\ ret = NoCall
    /\ ret' = [op |-> "price_after_all_discounts"] @@ PriceAfterAllDiscounts(arg)
    /\ UNCHANGED <<today, windowVars, passVars, voucherVars, arg, writers, reports>>

(* --------------------------------------------------------------- vouchers *)
Amounts == {50000, 100000}
Codes == {"1A2B3C4D", "5E6F7A8B", "9C0D1E2F"}

\* Voucher.objects.filter(code=voucher_code).exists()
CodeExists(code) == \E v \in DOMAIN vouchers : vouchers[v].code = code

\* get_new_pin: f"{random.randint(0,999999):06d}", a string of six digits
NewPin(n) == [type |-> "str", digits |-> ZeroPad(Digits(n), 6)]

\* the pin column of a stored row, loaded into an instance: a Decimal
LoadedPin(value) == [type |-> "Decimal", value |-> value]

\* "not self.pin": an empty string, None, or a Decimal equal to zero
PinIsFalsy(pin) ==
    IF pin.type = "None" THEN TRUE
    ELSE IF pin.type = "str" THEN Len(pin.digits) = 0
    ELSE pin.value = 0

RECURSIVE ParseDecimal(_)
\* DecimalField.to_python of a string of digits
ParseDecimal(digits) ==
    IF Len(digits) = 0 THEN 0
    ELSE 10 * ParseDecimal(SubSeq(digits, 1, Len(digits) - 1)) + digits[Len(digits)]

\* the value the pin column takes when the instance is written
PinColumn(pin) == IF pin.type = "str" THEN ParseDecimal(pin.digits) ELSE pin.value

(* Voucher.save(): the instance as super().save() writes it.  code and n   *)
(* are what get_new_voucher_code and random.randint return if asked.       *)
VoucherBeforeSave(self, code, n) ==
    [self EXCEPT !.code = IF self.code = "" THEN code ELSE self.code,
                 !.pin = IF PinIsFalsy(self.pin) THEN NewPin(n) ELSE self.pin]

\* update_voucher_number, the post_save receiver: f"V{instance.pk:06d}"
VoucherNumber(pk) == <<"V">> \o ZeroPad(Digits(pk), 6)

VoucherRow(self, pk) ==
    [amount |-> self.amount, code |-> self.code, pin |-> PinColumn(self.pin),
     voucher_number |-> IF self.voucher_number = <<>> THEN VoucherNumber(pk)
                        ELSE self.voucher_number]

\* a stored row loaded into an instance
VoucherInstance(pk) ==
    [pk |-> pk, amount |-> vouchers[pk].amount, code |-> vouchers[pk].code,
     pin |-> LoadedPin(vouchers[pk].pin), voucher_number |-> vouchers[pk].voucher_number]

(* Voucher.save() of a new instance or of one reloaded from storage.  The  *)
(* receiver saves the instance once more when it had no voucher_number;    *)
(* that second save finds code and pin set on the instance (the pin still  *)
(* the string get_new_pin returned) and leaves them.                       *)
VoucherSave ==
    \E pk \in {None} \cup DOMAIN vouchers, amount \in Amounts, code \in Codes, n \in 0..MaxPin :
        LET self == IF pk = None
                    THEN [pk |-> None, amount |-> amount, code |-> "",
                          pin |-> [type |-> "None"], voucher_number |-> <<>>]
                    ELSE VoucherInstance(pk)
            newpk == IF pk = None THEN Len(vouchers) + 1 ELSE pk
            saved == VoucherBeforeSave(self, code, n)
            again == VoucherBeforeSave(saved, code, n)
        IN  /\ pk = None => Len(vouchers) < MaxVouchers
            /\ pk # None => amount = vouchers[pk].amount
            \* the loop in get_new_voucher_code ends on a code no voucher has
            /\ IF self.code = "" THEN ~CodeExists(code) ELSE code = self.code
            /\ ~PinIsFalsy(self.pin) => n = 0
            /\ vouchers' = [v \in DOMAIN vouchers \cup {newpk} |->
                               IF v = newpk THEN VoucherRow(again, newpk) ELSE vouchers[v]]
            /\ UNCHANGED <<today, windowVars, passVars, transactions, evalVars, writers, reports>>

(* A VoucherTransaction is created or overwritten (park_pass is its        *)
(* primary key): Model.save() stores what it is given.                     *)
VoucherTransactionSave ==
    \E v \in DOMAIN vouchers, p \in DOMAIN passes, credit \in MoneyValues, debit \in MoneyValues :
        /\ transactions' = [q \in DOMAIN transactions \cup {p} |->
                               IF q = p THEN [voucher |-> v, credit |-> credit, debit |-> debit]
                               ELSE transactions[q]]
        /\ UNCHANGED <<today, windowVars, passVars, vouchers, evalVars, writers, reports>>

RECURSIVE RemainingBalanceLoop(_, _)
(* the loop of Voucher.remaining_balance over self.transactions.all():     *)
(* only a credit above 0.00 is added, only a debit above 0.00 subtracted   *)
RemainingBalanceLoop(balance, rows) ==
    IF Len(rows) = 0 THEN balance
    ELSE RemainingBalanceLoop(
            balance + (IF Head(rows).credit > 0 THEN Head(rows).credit ELSE 0)
                    - (IF Head(rows).debit > 0 THEN Head(rows).debit ELSE 0),
            Tail(rows))

\* the balance is clamped into the range instead of raising
RemainingBalance_Clamped(self) ==
    LET b == RemainingBalanceLoop(self.amount, self.transactions)
    IN  [outcome |-> "returned",
         value |-> IF b > self.amount THEN self.amount ELSE IF b < 0 THEN 0 ELSE b]

\* Voucher.remaining_balance
RemainingBalance(self) ==
    LET b == RemainingBalanceLoop(self.amount, self.transactions)
    IN  IF b > self.amount
        THEN [outcome |-> "RemainingBalanceExceedsVoucherAmountException", value |-> b]
        ELSE IF b < 0
        THEN [outcome |-> "RemainingVoucherBalanceLessThanZeroException", value |-> b]
        ELSE [outcome |-> "returned", value |-> b]

RECURSIVE SeqsUpTo(_, _)
\* the sequences over S of length at most n
SeqsUpTo(S, n) ==
    IF n = 0 THEN {<<>>}
    ELSE LET shorter == SeqsUpTo(S, n - 1)
         IN  shorter \cup {Append(q, x) : q \in shorter, x \in S}

VoucherReceivers ==
    [amount : Amounts,
     transactions : SeqsUpTo([credit : MoneyValues, debit : MoneyValues], MaxTransactions)]

EvalRemainingBalance ==
    /\ ret = NoCall
    /\ ret' = [op |-> "remaining_balance"] @@ RemainingBalance(arg)
    /\ UNCHANGED <<today, windowVars, passVars, voucherVars, arg, writers, reports>>

NoPassCall == [pk |-> None, pass_number |-> <<>>, outcome |-> "none",
               pdf |-> FALSE, sent |-> "none"]

InitWindows == today = 1 /\ windows = <<>> /\ winCall = NoCall
InitPasses == passes = <<>> /\ cancellations = <<>> /\ passCall = NoPassCall
InitVouchers == vouchers = <<>> /\ transactions = <<>>
InitEval == arg = NoCall /\ ret = NoCall /\ writers = <<>> /\ reports = <<>>

Init == InitWindows /\ InitPasses /\ InitVouchers /\ InitEval

(* A pass as its first save leaves it when it is put in the cart *)
CartPass(pk) ==
    [option |-> 1, date_start |-> 0, date_expiry |-> 1, pass_number |-> PassNumber(pk),
     processing_status |-> VALID, in_cart |-> TRUE, purchase_email_sent |-> FALSE,
     renew_automatically |-> FALSE]

\* two passes are in the cart when the cancellations start
InitCancellations ==
    /\ InitWindows /\ InitVouchers /\ InitEval
    /\ passes = <<CartPass(1), CartPass(2)>>
    /\ cancellations = <<>>
    /\ passCall = NoPassCall

WindowNext == PassTypePricingWindowSave \/ Tick

SpecWindows == Init /\ [][WindowNext]_vars

SpecPasses == Init /\ [][PassNext]_vars

CancellationNext == PassSave \/ PassCancellationSave \/ PassCancellationDelete

SpecCancellations == InitCancellations /\ [][CancellationNext]_vars

InitPassProperties ==
    /\ today \in Days /\ windows = <<>> /\ winCall = NoCall
    /\ InitPasses /\ InitVouchers
    /\ arg \in PassReceivers
    /\ ret = NoCall
    /\ writers = <<>>
    /\ reports = <<>>

PassPropertyNext == EvalStatus \/ EvalPriceAfterVoucherApplied \/ EvalPriceAfterAllDiscounts

SpecPassProperties == InitPassProperties /\ [][PassPropertyNext]_vars

\* two passes are in the cart when the vouchers are bought and spent
InitVoucherLedger ==
    /\ InitWindows /\ InitVouchers /\ InitEval
    /\ passes = <<CartPass(1), CartPass(2)>>
    /\ cancellations = <<>>
    /\ passCall = NoPassCall

VoucherNext == VoucherSave \/ VoucherTransactionSave

SpecVouchers == InitVoucherLedger /\ [][VoucherNext]_vars

InitBalance ==
    /\ InitWindows /\ InitPasses /\ InitVouchers
    /\ arg \in VoucherReceivers
    /\ ret = NoCall
    /\ writers = <<>>
    /\ reports = <<>>

SpecBalance == InitBalance /\ [][EvalRemainingBalance]_vars

(* ------------------------------------------------------------------ C1 *)
NullExpiryWindows(pt) ==
    {w \in DOMAIN windows : windows[w].pass_type = pt /\ windows[w].date_expiry = None}

\* the call just made would leave a second null-expiry window for its pass type
SecondDefaultAttempt ==
    /\ winCall'.op = "save"
    /\ winCall'.date_expiry = None
    /\ \E w \in DOMAIN windows :
          /\ w # winCall'.pk
          /\ windows[w].pass_type = winCall'.pass_type
          /\ windows[w].date_expiry = None

(* C1: after any sequence of PassTypePricingWindow.save calls every pass   *)
(* type has at most one stored window with a null expiry date, and a save  *)
(* that would produce a second one raises ValidationError and stores       *)
(* nothing.                                                                *)
C1_AtMostOneDefaultWindow ==
    /\ [](\A pt \in PassTypes : Cardinality(NullExpiryWindows(pt)) <= 1)
    /\ [][SecondDefaultAttempt =>
            (winCall'.outcome = "ValidationError" /\ windows' = windows)]_vars

\* a second null-expiry save for a pass type that already has its default was rejected
C1_Witness ==
    /\ winCall.op = "save"
    /\ winCall.date_expiry = None
    /\ winCall.outcome = "ValidationError"
    /\ \E w \in DOMAIN windows :
          /\ w # winCall.pk
          /\ windows[w].pass_type = winCall.pass_type
          /\ windows[w].date_expiry = None
    /\ \E w \in DOMAIN windows : windows[w].date_expiry # None

(* ------------------------------------------------------------------ C2 *)
RECURSIVE SumOver(_, _, _)
\* the sum of a column (credit or debit) over a set of transaction keys
SumOver(keys, table, column) ==
    IF keys = {} THEN 0
    ELSE LET k == CHOOSE x \in keys : TRUE
         IN  table[k][column] + SumOver(keys \ {k}, table, column)

LedgerBalance(v) ==
    LET keys == {p \in DOMAIN transactions : transactions[p].voucher = v}
    IN  vouchers[v].amount + SumOver(keys, transactions, "credit")
                           - SumOver(keys, transactions, "debit")

(* C2: after any sequence of VoucherTransaction creations the stored       *)
(* ledger of every voucher satisfies                                       *)
(* 0 <= amount + sum(credits) - sum(debits) <= amount: a transaction that  *)
(* would break this is refused with the integrity error, not stored.       *)
C2_LedgerWithinFaceAmount ==
    \A v \in DOMAIN vouchers :
        0 <= LedgerBalance(v) /\ LedgerBalance(v) <= vouchers[v].amount

(* ------------------------------------------------------------------ C3 *)
RECURSIVE SumSeq(_, _, _)
\* the sum over a sequence of rows of a column, all of it or only its positive entries
SumSeq(rows, column, positiveOnly) ==
    IF Len(rows) = 0 THEN 0
    ELSE (IF positiveOnly /\ Head(rows)[column] <= 0 THEN 0 ELSE Head(rows)[column])
         + SumSeq(Tail(rows), column, positiveOnly)

BalanceContract(balance) ==
    \/ /\ 0 <= balance /\ balance <= arg.amount
       /\ ret.outcome = "returned" /\ ret.value = balance
    \/ /\ balance > arg.amount
       /\ ret.outcome = "RemainingBalanceExceedsVoucherAmountException"
    \/ /\ balance < 0
       /\ ret.outcome = "RemainingVoucherBalanceLessThanZeroException"

(* C3 as stated: remaining_balance returns amount + sum(credits) -         *)
(* sum(debits) when that lies in [0, amount], raises                       *)
(* RemainingBalanceExceedsVoucherAmountException when it is greater than   *)
(* amount and RemainingVoucherBalanceLessThanZeroException when it is      *)
(* negative.                                                               *)
C3_BalanceOfAllEntries ==
    ret.op = "remaining_balance" =>
        BalanceContract(arg.amount + SumSeq(arg.transactions, "credit", FALSE)
                                   - SumSeq(arg.transactions, "debit", FALSE))

(* C3 as amended: the same contract for amount + the sum of the credits    *)
(* above zero - the sum of the debits above zero (a credit or debit that   *)
(* is not positive is skipped); never a clamped or out-of-range value.     *)
C3_BalanceOfPositiveEntries ==
    ret.op = "remaining_balance" =>
        /\ BalanceContract(arg.amount + SumSeq(arg.transactions, "credit", TRUE)
                                      - SumSeq(arg.transactions, "debit", TRUE))
        /\ ret.outcome = "returned" => (0 <= ret.value /\ ret.value <= arg.amount)

\* debits beyond the face amount make the evaluation raise
C3_Witness ==
    /\ ret.op = "remaining_balance"
    /\ Len(arg.transactions) = 2
    /\ \A i \in 1..2 : arg.transactions[i].debit > 0 /\ arg.transactions[i].credit = 0
    /\ ret.outcome = "RemainingVoucherBalanceLessThanZeroException"

(* ------------------------------------------------------------------ C4 *)
\* what an attached usage takes off a price, nothing when there is none
StageDiscount(usage, price) ==
    IF usage.present THEN (price * usage.percentage) \div 100 ELSE 0

\* the signed balance of the attached voucher transaction, nothing when there is none
SignedBalance(transaction) ==
    IF transaction.present THEN transaction.credit - transaction.debit ELSE 0

ExpectedAfterDiscountCode(self) ==
    LET base == Options[self.option].price
        afterConcession == base - StageDiscount(self.concession, base)
    IN  afterConcession - StageDiscount(self.discount_code, afterConcession)

(* C4: price_after_all_discounts is the option price, less the concession  *)
(* discount on the option price, less the discount-code discount on the    *)
(* price after the concession, plus the voucher transaction's signed       *)
(* balance, rounded to 2 decimals; an absent stage contributes nothing.    *)
C4_PriceAfterAllDiscounts ==
    ret.op = "price_after_all_discounts" =>
        /\ ret.outcome = "returned"
        /\ ret.value = Quantize(ExpectedAfterDiscountCode(arg) + SignedBalance(arg.transaction))

(* ------------------------------------------------------------------ C5 *)
(* C5: for a pass with a VoucherTransaction of debit d > 0 and credit 0,   *)
(* price_after_voucher_applied is price_after_discount_code_applied less   *)
(* d, and evaluating it does not fail.                                     *)
C5_VoucherDebitReducesPrice ==
    (/\ ret.op = "price_after_voucher_applied"
     /\ arg.transaction.present
     /\ arg.transaction.debit > 0
     /\ arg.transaction.credit = 0) =>
        /\ ret.outcome = "returned"
        /\ ret.value = ExpectedAfterDiscountCode(arg) - arg.transaction.debit

(* ------------------------------------------------------------------ C6 *)
(* C6: the status is CANCELLED whenever a cancellation is attached,        *)
(* whatever the dates; otherwise FUTURE if the start date is after today,  *)
(* EXPIRED if the expiry date is on or before today, CURRENT in every      *)
(* other case; exactly one of the four is reported.                        *)
C6_StatusIsPureFunction ==
    ret.op = "status" =>
        /\ ret.value \in {FUTURE, CURRENT, EXPIRED, CANCELLED}
        /\ (ret.value = CANCELLED) <=> arg.cancellation
        /\ (ret.value = FUTURE) <=> (~arg.cancellation /\ arg.date_start > today)
        /\ (ret.value = EXPIRED) <=>
              (~arg.cancellation /\ arg.date_start <= today /\ arg.date_expiry <= today)
        /\ (ret.value = CURRENT) <=>
              (~arg.cancellation /\ arg.date_start <= today /\ arg.date_expiry > today)

\* a cancelled pass whose expiry date is still ahead reports CANCELLED
C6_Witness ==
    /\ ret.op = "status"
    /\ arg.cancellation
    /\ arg.date_expiry > today
    /\ ret.value = CANCELLED

(* ------------------------------------------------------------------ C7 *)
HasCancellation(p) == \E c \in DOMAIN cancellations : cancellations[c] = p

(* C7: after any sequence of Pass.save, PassCancellation.save and          *)
(* PassCancellation.delete the stored processing_status of every pass is   *)
(* CANCELLED if and only if a PassCancellation row exists for that pass.   *)
C7_CancelledIffCancellationExists ==
    \A p \in DOMAIN passes :
        (passes[p].processing_status = CANCELLED) <=> HasCancellation(p)

(* ------------------------------------------------------------------ C8 *)
(* C8: after every Pass.save, whatever date_expiry the caller supplied,    *)
(* the stored date_expiry is the stored date_start plus the duration in    *)
(* days of the selected option.                                            *)
C8_ExpiryIsStartPlusDuration ==
    \A p \in DOMAIN passes :
        passes[p].date_expiry = passes[p].date_start + Options[passes[p].option].duration

\* a pass saved again by its cancellation holds an expiry no caller supplied
C8_Witness ==
    \E p \in DOMAIN passes :
        /\ HasCancellation(p)
        /\ passCall.pk = p /\ passCall.outcome = "saved"
        /\ passes[p].date_expiry \notin SuppliedExpiry
        /\ passes[p].date_expiry = passes[p].date_start + 2

(* ------------------------------------------------------------------ C9 *)
RECURSIVE DecimalValue(_)
\* the number a sequence of decimal digits denotes
DecimalValue(s) ==
    IF Len(s) = 0 THEN 0 ELSE 10 * DecimalValue(SubSeq(s, 1, Len(s) - 1)) + s[Len(s)]

\* 'PP' followed by the id zero-padded to 6 digits
IsPassNumberOf(number, pk) ==
    /\ Len(number) >= 8
    /\ number[1] = "P" /\ number[2] = "P"
    /\ \A i \in 3..Len(number) : number[i] \in 0..9
    /\ DecimalValue(SubSeq(number, 3, Len(number))) = pk
    /\ (pk < 1000000 => Len(number) = 8)

SaveOutcomes == {"saved", "PassTemplateDoesNotExist", "SendPassPurchasedEmailNotificationFailed"}

C10_CodeAndPinNeverChange ==
    [][\A v \in DOMAIN vouchers :
          /\ vouchers'[v].code = vouchers[v].code
          /\ vouchers'[v].pin = vouchers[v].pin]_vars

(* ------------------------------------------- concurrent voucher creation *)
Writers == 1..MaxWriters

\* a request that has not started
Idle == [pc |-> "start", outcome |-> "none"]

(* The first half of Voucher.save() in one request: get_new_voucher_code   *)
(* draws codes until Voucher.objects.filter(code=...).exists() is false.   *)
GetNewVoucherCode(w) ==
    \E code \in Codes :
        /\ writers[w].pc = "start"
        /\ Len(vouchers) < MaxVouchers
        /\ ~CodeExists(code)
        /\ writers' = [writers EXCEPT ![w] = [pc |-> "insert", outcome |-> "none",
                                               code |-> code]]
        /\ UNCHANGED <<today, windowVars, passVars, voucherVars, evalVars, reports>>

\* the insert goes through whatever the table holds
VoucherInsertOutcome_NoConstraint(code) == "saved"

\* code is declared unique=True: the INSERT of a code some row already has fails
VoucherInsertOutcome(code) == IF CodeExists(code) THEN "IntegrityError" ELSE "saved"

(* The second half: super().save() inserts the row, and the post_save      *)
(* receiver updates that same row with its voucher_number.                 *)
VoucherInsert(w) ==
    \E amount \in Amounts, n \in 0..MaxPin :
        LET self == [pk |-> None, amount |-> amount, code |-> writers[w].code,
                     pin |-> [type |-> "None"], voucher_number |-> <<>>]
            saved == VoucherBeforeSave(self, writers[w].code, n)
            outcome == VoucherInsertOutcome(writers[w].code)
        IN  /\ writers[w].pc = "insert"
            /\ Len(vouchers) < MaxVouchers
            /\ writers' = [writers EXCEPT ![w] = [pc |-> "done", outcome |-> outcome,
                                                   code |-> writers[w].code]]
            /\ vouchers' = IF outcome = "saved"
                           THEN Append(vouchers, VoucherRow(saved, Len(vouchers) + 1))
                           ELSE vouchers
            /\ UNCHANGED <<today, windowVars, passVars, transactions, evalVars, reports>>

\* the writer's request is over; the next one begins
NextRequest(w) ==
    /\ writers[w].pc = "done"
    /\ writers' = [writers EXCEPT ![w] = Idle]
    /\ UNCHANGED <<today, windowVars, passVars, voucherVars, evalVars, reports>>

InitVoucherRace ==
    /\ InitWindows /\ InitPasses /\ InitVouchers
    /\ arg = NoCall /\ ret = NoCall
    /\ writers = [w \in Writers |-> Idle]
    /\ reports = <<>>

VoucherRaceNext ==
    \E w \in Writers : GetNewVoucherCode(w) \/ VoucherInsert(w) \/ NextRequest(w)

SpecVoucherRace == InitVoucherRace /\ [][VoucherRaceNext]_vars

(* ----------------------------------------------------------------- C11 *)
(* C11: under every interleaving of concurrent Voucher.save calls (the     *)
(* uniqueness check of get_new_voucher_code, then the insert) no two       *)
(* stored vouchers share a code.                                           *)
C11_StoredCodesAreUnique ==
    \A v1 \in DOMAIN vouchers, v2 \in DOMAIN vouchers :
        vouchers[v1].code = vouchers[v2].code => v1 = v2

\* two writers passed the check with the same code; the later insert was refused
C11_Witness ==
    \E w \in Writers :
        /\ writers[w].outcome = "IntegrityError"
        /\ \E v \in DOMAIN vouchers : vouchers[v].code = writers[w].code

(* ------------------------------------- concurrent pricing-window creation *)
\* the dates the concurrent requests submit
RaceStarts == {d \in DateInputs : d.tod = 0}
RaceExpiries == {NoneValue, [kind |-> "datetime", day |-> MaxDay, tod |-> 0]}

\* the requests that have passed the validation and not yet inserted
Inserting == {w \in Writers : writers[w].pc = "insert"}

(* The first half of PassTypePricingWindow.save() in one request: the      *)
(* validation, with the count of the other null-expiry windows read from   *)
(* the table as it is now.                                                 *)
WindowCheck(w) ==
    \E pt \in PassTypes, ds \in RaceStarts, de \in RaceExpiries :
        LET self == [pk |-> None, pass_type |-> pt, date_start |-> ds, date_expiry |-> de]
            checked == PassTypePricingWindowValidate(self)
        IN  /\ writers[w].pc = "start"
            /\ Cardinality(DOMAIN windows) + Cardinality(Inserting) < MaxWindows
            /\ writers' = [writers EXCEPT ![w] =
                              IF checked = "saved"
                              THEN [pc |-> "insert", outcome |-> "none", self |-> self]
                              ELSE [pc |-> "done", outcome |-> checked]]
            /\ UNCHANGED <<today, windowVars, passVars, voucherVars, evalVars, reports>>

\* the insert validates once more against the table as it is at the insert
WindowInsertOutcome_Recheck(self) == PassTypePricingWindowValidate(self)

\* super().save(): the table declares no constraint over pass_type and date_expiry
WindowInsertOutcome(self) == "saved"

\* The second half: super().save() inserts the row.
WindowInsert(w) ==
    LET self == writers[w].self
        newpk == Cardinality(DOMAIN windows) + 1
        outcome == WindowInsertOutcome(self)
    IN  /\ writers[w].pc = "insert"
        /\ writers' = [writers EXCEPT ![w] =
                          [pc |-> "done", outcome |-> outcome, self |-> self,
                           pk |-> IF outcome = "saved" THEN newpk ELSE None]]
        /\ windows' = IF outcome = "saved"
                      THEN [x \in DOMAIN windows \cup {newpk} |->
                               IF x = newpk THEN PassTypePricingWindowRow(self)
                               ELSE windows[x]]
                      ELSE windows
        /\ UNCHANGED <<today, winCall, passVars, voucherVars, evalVars, reports>>

InitWindowRace ==
    /\ InitWindows /\ InitPasses /\ InitVouchers
    /\ arg = NoCall /\ ret = NoCall
    /\ writers = [w \in Writers |-> Idle]
    /\ reports = <<>>

WindowRaceNext ==
    \E w \in Writers : WindowCheck(w) \/ WindowInsert(w) \/ NextRequest(w)

SpecWindowRace == InitWindowRace /\ [][WindowRaceNext]_vars

(* ----------------------------------------------------------------- C12 *)
\* the writers whose request passed the validation and has finished
Finished == {w \in Writers : writers[w].pc = "done" /\ "self" \in DOMAIN writers[w]}

(* C12: the default-window check is a check-then-insert: a request that    *)
(* passed the count check stores its window whatever the other requests    *)
(* have inserted since, so two concurrent null-expiry saves for one pass   *)
(* type are both stored.                                                   *)
C12_CheckedWindowIsStored ==
    \A w \in Finished :
        /\ writers[w].outcome = "saved"
        /\ writers[w].pk \in DOMAIN windows
        /\ windows[writers[w].pk] = PassTypePricingWindowRow(writers[w].self)

\* two concurrent requests have each stored a null-expiry window for the same pass type
C12_Witness ==
    \E w1 \in Finished, w2 \in Finished :
        /\ w1 # w2
        /\ writers[w1].self.pass_type = writers[w2].self.pass_type
        /\ writers[w1].self.date_expiry = NoneValue
        /\ writers[w2].self.date_expiry = NoneValue
        /\ Cardinality(NullExpiryWindows(writers[w1].self.pass_type)) = 2

(* ------------------------------------------ one pricing-window save call *)
\* the instance a caller builds: a new window, or the stored one edited
WindowInstances ==
    [pk : {None, 1}, pass_type : PassTypes, date_start : DateInputs,
     date_expiry : {NoneValue} \cup DateInputs]

\* the tables the call can find: empty, or holding the default window of a pass type
StoredWindows ==
    {<<>>, <<[pass_type |-> "annual", date_start |-> 0, date_expiry |-> None]>>}

\* PassTypePricingWindow.save() of the instance arg
SaveWindow ==
    LET outcome == PassTypePricingWindowValidate(arg)
        newpk == IF arg.pk = None THEN Cardinality(DOMAIN windows) + 1 ELSE arg.pk
    IN  /\ ret = NoCall
        /\ ret' = [op |-> "save", outcome |-> outcome,
                   pk |-> IF outcome = "saved" THEN newpk ELSE arg.pk]
        /\ windows' = IF outcome = "saved"
                      THEN [w \in DOMAIN windows \cup {newpk} |->
                               IF w = newpk THEN PassTypePricingWindowRow(arg)
                               ELSE windows[w]]
                      ELSE windows
        /\ UNCHANGED <<today, winCall, passVars, voucherVars, arg, writers, reports>>

InitWindowSave ==
    /\ today \in Days
    /\ windows \in StoredWindows
    /\ winCall = NoCall
    /\ InitPasses /\ InitVouchers
    /\ arg \in {i \in WindowInstances : i.pk # None => i.pk \in DOMAIN windows}
    /\ ret = NoCall
    /\ writers = <<>>
    /\ reports = <<>>

SpecWindowSave == InitWindowSave /\ [][SaveWindow]_vars

(* ----------------------------------------------------------------- C13 *)
\* the start date is strictly before the expiry date and the expiry date is after today
ValidNonDefaultDates(self) ==
    /\ self.date_start.day < self.date_expiry.day
    /\ self.date_expiry.day > today

(* C13: saving a window whose expiry date is set stores the window if and  *)
(* only if its start date is strictly before its expiry date and its       *)
(* expiry date is after today; otherwise the save raises ValidationError   *)
(* and the stored windows are unchanged.                                   *)
C13_NonDefaultSaveIffValidDates ==
    [][(ret'.op = "save" /\ arg.date_expiry.kind # "None") =>
          IF ValidNonDefaultDates(arg)
          THEN /\ ret'.outcome = "saved"
               /\ windows'[ret'.pk] = PassTypePricingWindowRow(arg)
          ELSE /\ ret'.outcome = "ValidationError"
               /\ windows' = windows]_vars

(* ------------------------------------------------- resolving the options *)
(* For the resolution a stored window carries its PassTypePricingWindow-   *)
(* Option rows (the reverse accessor "options"), in the order of the       *)
(* model's Meta.ordering: by price.                                        *)
OptionLists == {<<>>, <<[name |-> "1 day", duration |-> 1, price |-> 100000]>>}

\* the pass type ids a caller can ask for: those of the PassType rows, and one of no row
PassTypeIds == PassTypes \cup {"missing"}

(* The rows the table can hold: null-expiry windows, and windows whose     *)
(* start date is before their expiry date.                                 *)
ResolutionRows ==
    [pass_type : {"annual"}, date_start : {0, MaxDay}, date_expiry : {None},
     options : OptionLists]
    \cup
    {r \in [pass_type : {"annual"}, date_start : Days, date_expiry : 1..(MaxDay + 1),
            options : OptionLists] : r.date_start < r.date_expiry}
    \cup
    [pass_type : {"holiday"}, date_start : {0}, date_expiry : {None}, options : OptionLists]

\* PassTypePricingWindow.objects.filter(pass_type=pass_type)
WindowsOfPassType(pt) == {w \in DOMAIN windows : windows[w].pass_type = pt}

(* .exclude(date_expiry__isnull=True).filter(pass_type=pass_type,          *)
(*          date_start__lte=timezone.now(), date_expiry__gte=timezone.now()) *)
(* A DateField lookup compares with the date of the instant.               *)
CurrentPricingWindows(pt) ==
    {w \in WindowsOfPassType(pt) :
        /\ windows[w].date_expiry # None
        /\ windows[w].date_start <= today
        /\ windows[w].date_expiry >= today}

\* .order_by("date_start").last(): a row of the set with the greatest date_start
LastByDateStart(S) ==
    {w \in S : \A x \in S : windows[x].date_start <= windows[w].date_start}

\* PassTypePricingWindowOption.objects.filter(pricing_window=pricing_window)
Returned(w, log) ==
    [outcome |-> "returned", pricing_window |-> w, options |-> windows[w].options,
     log |-> log]

Raised(exception, log) ==
    [outcome |-> exception, pricing_window |-> None, options |-> <<>>, log |-> log]

(* PassTypePricingWindowOption.get_current_options_by_pass_type_id: the    *)
(* results the call can produce.  A .get() that finds no row raises the    *)
(* model's DoesNotExist, one that finds several MultipleObjectsReturned;   *)
(* among rows with the same date_start the database returns any as last.   *)
GetCurrentOptionsByPassTypeId(pass_type_id) ==
    LET all == WindowsOfPassType(pass_type_id)
        current == CurrentPricingWindows(pass_type_id)
        defaults == {w \in all : windows[w].date_expiry = None}
    IN  IF pass_type_id \notin PassTypes
        THEN {[outcome |-> "returned", pricing_window |-> None, options |-> <<>>,
               log |-> "info"]}
        ELSE IF Cardinality(all) = 0
        THEN {[outcome |-> "returned", pricing_window |-> None, options |-> <<>>,
               log |-> "critical"]}
        ELSE IF Cardinality(all) = 1 THEN {Returned(w, "none") : w \in all}
        ELSE IF Cardinality(current) = 0
        THEN IF Cardinality(defaults) = 0 THEN {Raised("DoesNotExist", "none")}
             ELSE IF Cardinality(defaults) > 1
             THEN {Raised("MultipleObjectsReturned", "none")}
             ELSE {Returned(w, "none") : w \in defaults}
        ELSE IF Cardinality(current) = 1 THEN {Returned(w, "none") : w \in current}
        ELSE {Returned(w, "warning") : w \in LastByDateStart(current)}

EvalCurrentOptions ==
    \E r \in GetCurrentOptionsByPassTypeId(arg) :
        /\ ret = NoCall
        /\ ret' = [op |-> "get_current_options_by_pass_type_id"] @@ r
        /\ UNCHANGED <<today, windowVars, passVars, voucherVars, arg, writers, reports>>

InitResolution ==
    /\ today \in Days
    /\ windows \in SeqsUpTo(ResolutionRows, MaxStored)
    /\ winCall = NoCall
    /\ InitPasses /\ InitVouchers
    /\ arg \in PassTypeIds
    /\ ret = NoCall
    /\ writers = <<>>
    /\ reports = <<>>

SpecResolution == InitResolution /\ [][EvalCurrentOptions]_vars

(* ----------------------------------------------------------- C14 - C17 *)
\* the call has been made for a pass type
Resolved == ret.op = "get_current_options_by_pass_type_id" /\ arg \in PassTypes

\* the non-default windows of the pass type whose [start, expiry) contains today
Containing(pt) ==
    {w \in WindowsOfPassType(pt) :
        /\ windows[w].date_expiry # None
        /\ windows[w].date_start <= today
        /\ today < windows[w].date_expiry}

\* the call returned the options of window w
ReturnedOptionsOf(w) ==
    /\ ret.outcome = "returned"
    /\ ret.pricing_window = w
    /\ ret.options = windows[w].options

(* C14: for a pass type with a default (null-expiry) window the call       *)
(* returns the default window's options when no non-default window         *)
(* contains today, and the matching window's options when exactly one      *)
(* non-default window contains it.                                         *)
C14_DefaultOrSingleMatch ==
    (Resolved /\ Cardinality(NullExpiryWindows(arg)) = 1) =>
        /\ Cardinality(Containing(arg)) = 0 =>
              \E w \in NullExpiryWindows(arg) : ReturnedOptionsOf(w)
        /\ Cardinality(Containing(arg)) = 1 =>
              \E w \in Containing(arg) : ReturnedOptionsOf(w)

(* C15: when two or more non-default windows contain today the call does   *)
(* not fail: it returns the options of the containing window with the      *)
(* latest start date, the same window on every call, and logs a warning.   *)
C15_LatestStartAmongMatches ==
    (Resolved /\ Cardinality(Containing(arg)) >= 2) =>
        /\ \E w \in LastByDateStart(Containing(arg)) : ReturnedOptionsOf(w)
        /\ ret.log = "warning"
        /\ Cardinality(GetCurrentOptionsByPassTypeId(arg)) = 1

(* C16: a non-default window is current only while today lies in           *)
(* [start, expiry): the call never returns the options of a non-default    *)
(* window on or after its expiry date when the pass type has a default     *)
(* window to fall back to.                                                 *)
C16_ExpiryIsExclusive ==
    (/\ Resolved
     /\ Cardinality(NullExpiryWindows(arg)) = 1
     /\ ret.outcome = "returned"
     /\ windows[ret.pricing_window].date_expiry # None) =>
        ret.pricing_window \in Containing(arg)

(* C17: for a pass type that has windows but none with a null expiry the   *)
(* call raises NoDefaultPricingWindowExists and returns no option list,    *)
(* with one window or with several.                                        *)
C17_NoDefaultWindowRaises ==
    (/\ Resolved
     /\ WindowsOfPassType(arg) # {}
     /\ NullExpiryWindows(arg) = {}) =>
        ret.outcome = "NoDefaultPricingWindowExists"

(* ------------------------------------------------------- pro-rata refund *)
\* option.duration, in days ("i.e. 5, 14, 28, 365")
RefundDurations == {1, 3, 8, 14}

(* The receiver: a pass as Pass.save() stores it, its expiry date being    *)
(* its start date plus the duration of its option.                         *)
RefundReceivers ==
    {p \in [date_start : Days, duration : RefundDurations,
            date_expiry : 0..(MaxDay + 14)] : p.date_expiry = p.date_start + p.duration}

(* round(n / d) for n >= 0 and d > 0: Python rounds the quotient to the    *)
(* nearest integer and a tie to the even one                               *)
Round(n, d) ==
    IF 2 * (n % d) > d THEN (n \div d) + 1
    ELSE IF 2 * (n % d) = d THEN (n \div d) + ((n \div d) % 2)
    ELSE n \div d

\* the quotient is truncated
ProRataRefundPercentage_Truncated(self) ==
    IF self.date_start >= today THEN 100
    ELSE IF self.date_expiry <= today THEN 0
    ELSE ((self.duration - (today - self.date_start)) * 100) \div self.duration

\* Pass.pro_rata_refund_percentage
ProRataRefundPercentage(self) ==
    IF self.date_start >= today THEN 100
    ELSE IF self.date_expiry <= today THEN 0
    ELSE Round((self.duration - (today - self.date_start)) * 100, self.duration)

EvalProRataRefundPercentage ==
    /\ ret = NoCall
    /\ ret' = [op |-> "pro_rata_refund_percentage", value |-> ProRataRefundPercentage(arg)]
    /\ UNCHANGED <<today, windowVars, passVars, voucherVars, arg, writers, reports>>

InitRefund ==
    /\ today \in 0..MaxToday
    /\ windows = <<>> /\ winCall = NoCall
    /\ InitPasses /\ InitVouchers
    /\ arg \in RefundReceivers
    /\ ret = NoCall
    /\ writers = <<>>
    /\ reports = <<>>

SpecRefund == InitRefund /\ [][EvalProRataRefundPercentage]_vars

(* ----------------------------------------------------------------- C18 *)
\* v is the integer nearest to n / d, the even one of the two when n / d lies half way
IsRounded(v, n, d) ==
    /\ 2 * (v * d - n) <= d
    /\ 2 * (n - v * d) <= d
    /\ (2 * (v * d - n) = d \/ 2 * (n - v * d) = d) => v % 2 = 0

(* C18: pro_rata_refund_percentage is 100 for a pass that has not started, *)
(* 0 for a pass whose expiry date is today or earlier, and otherwise the   *)
(* rounded percentage of the days that remain (50 for 7 of 14 days); the   *)
(* result is an integer between 0 and 100.                                 *)
C18_ProRataRefundPercentage ==
    ret.op = "pro_rata_refund_percentage" =>
        /\ arg.date_start > today => ret.value = 100
        /\ arg.date_expiry <= today => ret.value = 0
        /\ (arg.date_start <= today /\ today < arg.date_expiry) =>
              IsRounded(ret.value, (arg.duration - (today - arg.date_start)) * 100,
                        arg.duration)
        /\ (arg.duration = 14 /\ today - arg.date_start = 7) => ret.value = 50
        /\ ret.value \in 0..100

\* a started pass with one of eight days left: 12.5 is rounded to 12
C18_Witness ==
    /\ ret.op = "pro_rata_refund_percentage"
    /\ arg.duration = 8
    /\ today - arg.date_start = 7
    /\ ret.value = 12

(* --------------------------------------------------------------- is_valid *)
\* settings.PRICING_WINDOW_DEFAULT_NAME, the name get_default_pricing_window_by_pass_type_id asks for
PRICING_WINDOW_DEFAULT_NAME == "Default"

WindowNames == {PRICING_WINDOW_DEFAULT_NAME, "Summer"}

\* the option names in the order Python compares the strings
OptionNames == <<"1 day", "2 days">>

NameRank(name) == CHOOSE i \in DOMAIN OptionNames : OptionNames[i] = name

OptionRows ==
    {[name |-> "1 day", duration |-> 1, price |-> 100000],
     [name |-> "1 day", duration |-> 1, price |-> 150000],
     [name |-> "2 days", duration |-> 2, price |-> 200000],
     [name |-> "1 day", duration |-> 2, price |-> 250000]}

\* the options of a window as the model's ordering (by price) lists them
OrderedOptionLists ==
    {l \in SeqsUpTo(OptionRows, 2) : Len(l) = 2 => l[1].price <= l[2].price}

ValidityRows ==
    [name : WindowNames, pass_type : {"annual"}, date_start : {0},
     date_expiry : {None, MaxDay}, options : OrderedOptionLists]

\* options.values_list("name", "duration")
ValuesList(options) == [i \in DOMAIN options |-> <<options[i].name, options[i].duration>>]

\* a < b for two (name, duration) tuples
TupleLess(a, b) ==
    \/ NameRank(a[1]) < NameRank(b[1])
    \/ (a[1] = b[1] /\ a[2] < b[2])

RECURSIVE Insert(_, _)
Insert(x, sorted) ==
    IF Len(sorted) = 0 THEN <<x>>
    ELSE IF TupleLess(Head(sorted), x) THEN <<Head(sorted)>> \o Insert(x, Tail(sorted))
    ELSE <<x>> \o sorted

RECURSIVE Sorted(_)
\* sorted(list(...))
Sorted(l) == IF Len(l) = 0 THEN <<>> ELSE Insert(Head(l), Sorted(Tail(l)))

(* PassTypePricingWindow.get_default_pricing_window_by_pass_type_id:       *)
(* .get(pass_type__id=pass_type_id, name="Default")                        *)
GetDefaultPricingWindowByPassTypeId(pt) ==
    LET found == {w \in WindowsOfPassType(pt) : windows[w].name = "Default"}
    IN  IF found = {} THEN [outcome |-> "NoDefaultPricingWindowExists", pk |-> None]
        ELSE IF Cardinality(found) > 1
        THEN [outcome |-> "MultipleDefaultPricingWindowsExist", pk |-> None]
        ELSE [outcome |-> "returned", pk |-> CHOOSE w \in found : TRUE]

\* PassTypePricingWindow.is_valid
IsValid(self) ==
    IF self.date_expiry = None /\ PRICING_WINDOW_DEFAULT_NAME = self.name
    THEN [outcome |-> "returned", value |-> TRUE]
    ELSE LET default == GetDefaultPricingWindowByPassTypeId(self.pass_type)
         IN  IF default.outcome # "returned"
             THEN [outcome |-> default.outcome, value |-> FALSE]
             ELSE [outcome |-> "returned",
                   value |-> (Sorted(ValuesList(self.options))
                                = Sorted(ValuesList(windows[default.pk].options)))]

\* arg is the primary key of the window is_valid() is called on
EvalIsValid ==
    /\ ret = NoCall
    /\ ret' = [op |-> "is_valid"] @@ IsValid(windows[arg])
    /\ UNCHANGED <<today, windowVars, passVars, voucherVars, arg, writers, reports>>

InitValidity ==
    /\ today = 1
    /\ windows \in SeqsUpTo(ValidityRows, MaxWindows) \ {<<>>}
    /\ winCall = NoCall
    /\ InitPasses /\ InitVouchers
    /\ arg \in DOMAIN windows
    /\ ret = NoCall
    /\ writers = <<>>
    /\ reports = <<>>

SpecValidity == InitValidity /\ [][EvalIsValid]_vars

(* ----------------------------------------------------------------- C19 *)
\* how many options of the window have this name and this duration
PairCount(options, name, duration) ==
    Cardinality({i \in DOMAIN options :
                    options[i].name = name /\ options[i].duration = duration})

\* the two windows have the same multiset of (name, duration) pairs
SameOptionPairs(o1, o2) ==
    \A r \in OptionRows :
        PairCount(o1, r.name, r.duration) = PairCount(o2, r.name, r.duration)

(* C19: is_valid returns true for the default (null-expiry) window, and    *)
(* for any other window returns true exactly when the multiset of its      *)
(* options' (name, duration) pairs equals that of the default window's     *)
(* options; prices play no part.                                           *)
C19_ValidIffSameOptionPairs ==
    ret.op = "is_valid" =>
        /\ windows[arg].date_expiry = None =>
              (ret.outcome = "returned" /\ ret.value = TRUE)
        /\ (windows[arg].date_expiry # None /\ Cardinality(NullExpiryWindows("annual")) = 1) =>
              \E w \in NullExpiryWindows("annual") :
                  /\ ret.outcome = "returned"
                  /\ ret.value = SameOptionPairs(windows[arg].options, windows[w].options)

(* ------------------------------------------------------ validating a voucher *)
\* Voucher.NEW (NEW is a reserved word)
New == "N"
DELIVERED == "D"
NOT_DELIVERED == "ND"

Emails == {"ann@example.org", "bob@example.org"}

\* request.query_params.get(name, None): no such parameter, or its text (possibly empty)
NoParam == [present |-> FALSE, text |-> ""]
TextParams(S) == {NoParam} \cup [present : {TRUE}, text : S \cup {""}]

(* The pin parameter: absent, empty, a string of decimal digits, or some   *)
(* other text.                                                             *)
PinParams ==
    {[present |-> FALSE, kind |-> "empty", digits |-> <<>>],
     [present |-> TRUE, kind |-> "empty", digits |-> <<>>],
     [present |-> TRUE, kind |-> "text", digits |-> <<>>]}
    \cup {[present |-> TRUE, kind |-> "digits", digits |-> ZeroPad(Digits(n), 6)] :
             n \in 0..MaxPin}

Requests == [email : TextParams(Emails), code : TextParams({"1A2B3C4D"}), pin : PinParams]

\* the ledgers of a voucher: untouched, partly spent, and debited beyond its amount
Ledgers ==
    {<<>>, <<[credit |-> 0, debit |-> 20000]>>, <<[credit |-> 0, debit |-> 100000]>>}

DeliveryRows ==
    [recipient_email : Emails, code : {"1A2B3C4D", "5E6F7A8B"}, pin : 0..MaxPin,
     in_cart : BOOLEAN, processing_status : {New, DELIVERED, NOT_DELIVERED},
     amount : {50000}, transactions : Ledgers]

\* "if email and code and pin": a parameter that is present and not empty
Truthy(p) == p.present /\ p.text # ""
PinTruthy(p) == p.present /\ p.kind # "empty"

(* Voucher.objects.filter(in_cart=False, recipient_email=email, code=code, *)
(*                        pin=pin, processing_status=Voucher.DELIVERED)    *)
MatchingVouchers(request) ==
    {v \in DOMAIN vouchers :
        /\ ~vouchers[v].in_cart
        /\ vouchers[v].recipient_email = request.email.text
        /\ vouchers[v].code = request.code.text
        /\ vouchers[v].pin = ParseDecimal(request.pin.digits)
        /\ vouchers[v].processing_status = DELIVERED}

InvalidResponse ==
    [outcome |-> "response", is_voucher_code_valid |-> FALSE, balance_remaining |-> None]

\* the response for a voucher that was found, or the exception its balance raises
FoundResponse(v) ==
    LET balance == RemainingBalance(vouchers[v])
    IN  IF balance.outcome = "returned"
        THEN [outcome |-> "response", is_voucher_code_valid |-> TRUE,
              balance_remaining |-> balance.value]
        ELSE [outcome |-> balance.outcome, is_voucher_code_valid |-> FALSE,
              balance_remaining |-> None]

(* ValidateVoucherView.get.  A pin that is not a decimal number cannot be  *)
(* prepared for the DecimalField lookup: the filter raises ValidationError. *)
ValidateVoucher(request) ==
    IF ~(Truthy(request.email) /\ Truthy(request.code) /\ PinTruthy(request.pin))
    THEN InvalidResponse
    ELSE IF request.pin.kind # "digits"
    THEN [outcome |-> "ValidationError", is_voucher_code_valid |-> FALSE,
          balance_remaining |-> None]
    ELSE IF MatchingVouchers(request) = {} THEN InvalidResponse
    ELSE FoundResponse(CHOOSE v \in MatchingVouchers(request) : TRUE)

EvalValidateVoucher ==
    /\ ret = NoCall
    /\ ret' = [op |-> "validate_voucher"] @@ ValidateVoucher(arg)
    /\ UNCHANGED <<today, windowVars, passVars, voucherVars, arg, writers, reports>>

InitValidation ==
    /\ InitWindows /\ InitPasses
    /\ vouchers \in SeqsUpTo(DeliveryRows, 1)
    /\ transactions = <<>>
    /\ arg \in Requests
    /\ ret = NoCall
    /\ writers = <<>>
    /\ reports = <<>>

SpecValidation == InitValidation /\ [][EvalValidateVoucher]_vars

(* ----------------------------------------------------------------- C20 *)
\* email, code and pin are supplied and a delivered voucher out of the cart matches all three
ValidRequest ==
    /\ Truthy(arg.email) /\ Truthy(arg.code) /\ PinTruthy(arg.pin)
    /\ \E v \in DOMAIN vouchers :
          /\ ~vouchers[v].in_cart
          /\ vouchers[v].processing_status = DELIVERED
          /\ vouchers[v].recipient_email = arg.email.text
          /\ vouchers[v].code = arg.code.text
          /\ arg.pin.kind = "digits"
          /\ vouchers[v].pin = ParseDecimal(arg.pin.digits)

(* C20: the validation endpoint answers is_voucher_code_valid = true with  *)
(* the remaining balance exactly when email, code and pin are supplied and *)
(* match a delivered voucher that is not in a cart; in every other case it *)
(* answers is_voucher_code_valid = false without a balance, the same       *)
(* response whichever condition failed.                                    *)
C20_ValidIffDeliveredVoucherMatches ==
    ret.op = "validate_voucher" =>
        IF ValidRequest
        THEN /\ ret.outcome = "response"
             /\ ret.is_voucher_code_valid = TRUE
             /\ ret.balance_remaining # None
        ELSE /\ ret.outcome = "response"
             /\ ret.is_voucher_code_valid = FALSE
             /\ ret.balance_remaining = None

(* -------------------------------------------------- notification failures *)
\* the notifications a pass sends
NotificationKinds ==
    {"autorenew", "autorenew_success", "autorenew_failure", "expiry", "expired",
     "purchased", "updated", "vehicle_details_not_yet_provided"}

\* what PassEmails raises while sending, or "none" when the email goes out
SendCauses == {"none", "SMTPException", "ConnectionRefusedError", "TemplateDoesNotExist"}

\* the exception Pass.send_<kind>_notification_email raises when PassEmails fails
NotificationFailure(kind) ==
    CASE kind = "autorenew" -> "SendPassAutoRenewNotificationEmailFailed"
      [] kind = "autorenew_success" -> "SendPassAutoRenewSuccessNotificationEmailFailed"
      [] kind = "autorenew_failure" -> "SendPassAutoRenewFailureNotificationEmailFailed"
      [] kind = "expiry" -> "SendPassExpiryNotificationEmailFailed"
      [] kind = "expired" -> "SendPassExpiredNotificationEmailFailed"
      [] kind = "purchased" -> "SendPassPurchasedEmailNotificationFailed"
      [] kind = "updated" -> "SendPassPurchasedEmailNotificationFailed"
      [] kind = "vehicle_details_not_yet_provided" ->
            "SendPassVehicleDetailsNotYetProvidedEmailNotificationFailed"

(* Pass.send_<kind>_notification_email(): the exception is raised with a   *)
(* message that names the pass id and the exception caught.                *)
SendNotificationEmail(self) ==
    IF self.cause = "none"
    THEN [outcome |-> "returned", id |-> self.id, cause |-> "none"]
    ELSE [outcome |-> NotificationFailure(self.kind), id |-> self.id, cause |-> self.cause]

EvalSendNotificationEmail ==
    /\ ret = NoCall
    /\ ret' = [op |-> "send_notification_email"] @@ SendNotificationEmail(arg)
    /\ UNCHANGED <<today, windowVars, passVars, voucherVars, arg, writers, reports>>

InitNotification ==
    /\ InitWindows /\ InitPasses /\ InitVouchers
    /\ arg \in [kind : NotificationKinds, id : 1..MaxNotified, cause : SendCauses]
    /\ ret = NoCall
    /\ writers = <<>>
    /\ reports = <<>>

SpecNotification == InitNotification /\ [][EvalSendNotificationEmail]_vars

(* ----------------------------------------------------------------- C21 *)
(* C21: a notification failure is raised as the failure signal of its own  *)
(* kind, carrying the original cause: no other kind of notification raises *)
(* the same exception type, so the type tells which notification failed.   *)
C21_FailureTypeNamesTheNotification ==
    (ret.op = "send_notification_email" /\ arg.cause # "none") =>
        /\ ret.outcome # "returned"
        /\ ret.cause = arg.cause
        /\ \A kind \in NotificationKinds :
              NotificationFailure(kind) = ret.outcome => kind = arg.kind

(* ------------------------------------------ cancelling automatic renewal *)
\* the passes the table can hold when the renewal is cancelled: rows as Pass.save() leaves them
RenewalRows ==
    {p \in [option : DOMAIN Options, date_start : StartDays, date_expiry : 0..(MaxStart + 2),
            pass_number : {PassNumber(1)}, processing_status : {VALID},
            in_cart : BOOLEAN, purchase_email_sent : BOOLEAN,
            renew_automatically : BOOLEAN] :
        /\ p.date_expiry = PassExpiry(p)
        /\ p.purchase_email_sent => ~p.in_cart}

InitRenewal ==
    /\ today \in Days /\ windows = <<>> /\ winCall = NoCall
    /\ passes \in {<<p>> : p \in RenewalRows}
    /\ cancellations = <<>>
    /\ passCall = NoPassCall
    /\ InitVouchers /\ InitEval

SpecRenewal == InitRenewal /\ [][PassCancelAutomaticRenewal]_vars

(* ----------------------------------------------------------------- C22 *)
\* the exceptions of the pdf generation and of the email delivery
DeliveryFailures == {"PassTemplateDoesNotExist", "SendPassPurchasedEmailNotificationFailed"}

(* C22: cancel_automatic_renewal raises ValidationError and leaves the     *)
(* pass unchanged when automatic renewal is not enabled or the expiry is   *)
(* not more than a day away; for a renewing pass whose expiry date is more *)
(* than one day in the future it completes and stores                      *)
(* renew_automatically = false.                                            *)
C22_CancelAutomaticRenewal ==
    [][passCall'.pk \in DOMAIN passes =>
          IF ~passes[passCall'.pk].renew_automatically
                \/ passes[passCall'.pk].date_expiry <= today
          THEN /\ passCall'.outcome = "ValidationError"
               /\ passes' = passes
          ELSE passes[passCall'.pk].date_expiry > today + 1 =>
                  \/ passCall'.outcome \in DeliveryFailures
                  \/ /\ passCall'.outcome = "saved"
                     /\ ~passes'[passCall'.pk].renew_automatically]_vars

(* ------------------------------------------- the voucher code generator *)
\* the voucher tables the generator can run against: codes are unique=True
StoredCodeLists ==
    {s \in SeqsUpTo(Codes, MaxStored) : \A i, j \in DOMAIN s : s[i] = s[j] => i = j}

StoredVouchers(codes) ==
    [i \in DOMAIN codes |->
        [amount |-> 50000, code |-> codes[i], pin |-> PinColumn(NewPin(0)),
         voucher_number |-> VoucherNumber(i)]]

\* every candidate passes the test
CodeIsUnique_Always(code) == TRUE

\* not Voucher.objects.filter(code=voucher_code).exists()
CodeIsUnique(code) == ~CodeExists(code)

\* the codes of the table
StoredCodes == {vouchers[v].code : v \in DOMAIN vouchers}

\* is_voucher_code_unique = False, before the first test of the loop condition
CallGetNewVoucherCode ==
    /\ ret = NoCall
    /\ ret' = [op |-> "get_new_voucher_code", pc |-> "draw", voucher_code |-> "",
               is_voucher_code_unique |-> FALSE, rejected |-> FALSE, seen |-> {}]
    /\ UNCHANGED <<today, windowVars, passVars, voucherVars, arg, writers, reports>>

\* voucher_code = str(uuid.uuid4()).upper()[:8]
DrawVoucherCode(code) ==
    /\ ret.op = "get_new_voucher_code" /\ ret.pc = "draw"
    /\ ret' = [ret EXCEPT !.pc = "check", !.voucher_code = code]
    /\ UNCHANGED <<today, windowVars, passVars, voucherVars, arg, writers, reports>>

\* the exists() query, and the loop condition that follows it
CheckVoucherCode ==
    /\ ret.op = "get_new_voucher_code" /\ ret.pc = "check"
    /\ ret' = IF CodeIsUnique(ret.voucher_code)
              THEN [ret EXCEPT !.pc = "return", !.is_voucher_code_unique = TRUE,
                               !.seen = StoredCodes]
              ELSE [ret EXCEPT !.pc = "draw", !.rejected = TRUE, !.seen = StoredCodes]
    /\ UNCHANGED <<today, windowVars, passVars, voucherVars, arg, writers, reports>>

InitVoucherCode ==
    /\ InitWindows /\ InitPasses
    /\ vouchers \in {StoredVouchers(codes) : codes \in StoredCodeLists}
    /\ transactions = <<>>
    /\ arg = NoCall /\ ret = NoCall
    /\ writers = <<>>
    /\ reports = <<>>

VoucherCodeNext ==
    \/ CallGetNewVoucherCode
    \/ \E code \in Codes : DrawVoucherCode(code)
    \/ CheckVoucherCode

SpecVoucherCode == InitVoucherCode /\ [][VoucherCodeNext]_vars

(* uuid4 draws every code with the same probability in every iteration, so *)
(* a code that can be drawn again and again is drawn at some point; a      *)
(* started query and a started call run to their end.                      *)
SpecVoucherCodeFair ==
    /\ SpecVoucherCode
    /\ WF_vars(CallGetNewVoucherCode)
    /\ WF_vars(CheckVoucherCode)
    /\ \A code \in Codes : SF_vars(DrawVoucherCode(code))

(* ----------------------------------------------------------------- C23 *)
InLoop == ret.op = "get_new_voucher_code" /\ ret.pc # "return"
HasReturned == ret.op = "get_new_voucher_code" /\ ret.pc = "return"

(* C23: get_new_voucher_code terminates: when some code is not used by a  *)
(* stored voucher and the candidates are drawn fairly, the loop exits, and *)
(* the code it returns was not in the voucher table when it was checked.   *)
C23_GetNewVoucherCodeTerminates ==
    /\ (InLoop /\ StoredCodes # Codes) ~> HasReturned
    /\ [](HasReturned => ret.voucher_code \notin ret.seen)

\* the loop rejected a candidate that was in use, and returned a later one
C23_Witness == HasReturned /\ ret.rejected

(* ----------------------------------------------------------------- C24 *)
(* the pass of the call that ends in this step is not cancelled (no        *)
(* PassCancellation row points at it when it is saved, which is what       *)
(* set_processing_status reads) and not in cart                            *)
SavedPassNotifies ==
    /\ ~\E c \in DOMAIN cancellations' : cancellations'[c] = passCall'.pk
    /\ ~passes'[passCall'.pk].in_cart

\* the 'purchased' notification of the pass was sent by an earlier save
PurchasedSentBefore ==
    passCall'.pk \in DOMAIN passes /\ passes[passCall'.pk].purchase_email_sent

(* C24: over the saves of one pass, the PDF is generated and a             *)
(* notification is sent only by a save in which the pass is not cancelled  *)
(* and not in cart; the first such save that completes sends 'purchased'   *)
(* and stores purchase_email_sent = true, every later one sends 'updated', *)
(* and 'purchased' is never sent a second time.                            *)
C24_PurchasedOnceThenUpdated ==
    [][passCall'.pk \in DOMAIN passes' =>
          /\ (passCall'.pdf \/ passCall'.sent # "none") => SavedPassNotifies
          /\ passCall'.sent = "purchased" =>
                ~PurchasedSentBefore /\ passes'[passCall'.pk].purchase_email_sent
          /\ (SavedPassNotifies /\ passCall'.outcome = "saved") =>
                passCall'.sent = IF PurchasedSentBefore THEN "updated" ELSE "purchased"
          /\ \A p \in DOMAIN passes :
                passes[p].purchase_email_sent => passes'[p].purchase_email_sent]_vars

\* a later save of a purchased pass sent the 'updated' notification
C24_Witness ==
    /\ passCall.sent = "updated" /\ passCall.pdf
    /\ passes[passCall.pk].purchase_email_sent

(* ----------------------------------------------------------------- C26 *)
(* C26: after any Pass.save call, whether it returned or raised, every     *)
(* stored pass has its pass_number, 'PP' and its id; a failed save leaves  *)
(* no stored pass without one.                                             *)
C26_StoredPassHasPassNumber ==
    \A p \in DOMAIN passes : passes[p].pass_number = PassNumber(p)

(* ---------------------------------------- the two default-window notions *)
(* PassTypePricingWindow.save() of a window with its name: the validation  *)
(* reads pass_type, date_start and date_expiry and never the name          *)
SaveNamedWindow ==
    \E pk \in {None} \cup DOMAIN windows, name \in WindowNames, pt \in PassTypes,
       ds \in RaceStarts, de \in RaceExpiries :
        LET self == [pk |-> pk, pass_type |-> pt, date_start |-> ds, date_expiry |-> de]
            outcome == PassTypePricingWindowValidate(self)
            newpk == IF pk = None THEN Cardinality(DOMAIN windows) + 1 ELSE pk
        IN  /\ pk = None => Cardinality(DOMAIN windows) < MaxWindows
            /\ windows' = IF outcome = "saved"
                          THEN [w \in DOMAIN windows \cup {newpk} |->
                                   IF w = newpk
                                   THEN [name |-> name] @@ PassTypePricingWindowRow(self)
                                   ELSE windows[w]]
                          ELSE windows
            /\ winCall' = [op |-> "save", pk |-> IF outcome = "saved" THEN newpk ELSE pk,
                           pass_type |-> pt, date_expiry |-> ToDate(de), outcome |-> outcome]
            /\ UNCHANGED <<today, passVars, voucherVars, evalVars, writers, reports>>

SpecNamedWindows == Init /\ [][SaveNamedWindow]_vars

\* the windows the get(..., name="Default") of get_default_pricing_window_by_pass_type_id finds
DefaultNamedWindows(pt) ==
    {w \in WindowsOfPassType(pt) : windows[w].name = PRICING_WINDOW_DEFAULT_NAME}

(* ----------------------------------------------------------------- C27 *)
(* C27: for every pass type, after any sequence of pricing-window saves,   *)
(* the window named 'Default' is the window with a null expiry: the two    *)
(* notions of default window select the same window, and one exists        *)
(* whenever the other does.  NullExpiryWindows is what the get(pass_type,  *)
(* date_expiry__isnull=True) of get_current_options_by_pass_type_id finds. *)
C27_DefaultNameIffNullExpiry ==
    \A pt \in PassTypes : DefaultNamedWindows(pt) = NullExpiryWindows(pt)

(* ------------------------------------------ validation and voucher expiry *)
\* stored vouchers with their expiry column (the day of the timestamp)
ExpiringRows ==
    {[expiry |-> e] @@ r : e \in Days,
                           r \in {d \in DeliveryRows : d.transactions = <<>>}}

InitExpiry ==
    /\ InitWindows /\ InitPasses
    /\ vouchers \in SeqsUpTo(ExpiringRows, 1)
    /\ transactions = <<>>
    /\ arg \in Requests
    /\ ret = NoCall
    /\ writers = <<>>
    /\ reports = <<>>

SpecExpiry == InitExpiry /\ [][EvalValidateVoucher]_vars

(* ----------------------------------------------------------------- C29 *)
(* C29: the validation endpoint never answers is_voucher_code_valid = true *)
(* for a voucher whose expiry timestamp has passed.                        *)
C29_ExpiredVoucherIsNotValid ==
    (ret.op = "validate_voucher" /\ ret.outcome = "response"
        /\ ret.is_voucher_code_valid = TRUE) =>
        \A v \in MatchingVouchers(arg) : vouchers[v].expiry > today

(* --------------------------------- send_voucher_recipient_notification_emails *)
\* the columns of a stored voucher the command reads
ScheduledRows ==
    [in_cart : BOOLEAN, processing_status : {New, DELIVERED, NOT_DELIVERED},
     datetime_to_email : Days]

(* Voucher.objects.filter(datetime_to_email__date=today,                   *)
(* processing_status__in=[Voucher.NEW, Voucher.NOT_DELIVERED])             *)
VouchersDue ==
    {v \in DOMAIN vouchers :
        /\ vouchers[v].datetime_to_email = today
        /\ vouchers[v].processing_status \in {New, NOT_DELIVERED}}

(* Command.handle.  With --test it writes to stdout only.  Without, it     *)
(* calls voucher.send_voucher_recipient_notification_email() on the first  *)
(* voucher of the queryset (which one that is, the unordered query leaves  *)
(* open); Voucher defines no method of that name, so the call is an        *)
(* AttributeError that ends the run before any message is handed over.     *)
SendVoucherEmails ==
    \E first \in IF VouchersDue = {} THEN {None} ELSE VouchersDue :
        /\ ret = NoCall
        /\ ret' = [op |-> "send_voucher_recipient_notification_emails",
                   found |-> VouchersDue,
                   called |-> IF arg.test \/ VouchersDue = {} THEN {} ELSE {first},
                   emailed |-> {},
                   outcome |-> IF arg.test \/ VouchersDue = {} THEN "returned"
                               ELSE "AttributeError"]
        /\ UNCHANGED <<today, windowVars, passVars, voucherVars, arg, writers, reports>>

InitSchedule ==
    /\ today \in Days /\ windows = <<>> /\ winCall = NoCall
    /\ InitPasses
    /\ vouchers \in SeqsUpTo(ScheduledRows, MaxVouchers)
    /\ transactions = <<>>
    /\ arg \in [test : BOOLEAN]
    /\ ret = NoCall
    /\ writers = <<>>
    /\ reports = <<>>

SpecSchedule == InitSchedule /\ [][SendVoucherEmails]_vars

RetailerGroups == {"outback", "coastal"}

\* RetailerGroup.commission_percentage
CommissionPercentage(group) == IF group = "outback" THEN 10 ELSE 15

\* a calendar of months of DaysPerMonth days: the month of a day, and its first day
MonthOf(day) == day \div DaysPerMonth
FirstDayOfMonth(day) == day - (day % DaysPerMonth)

\* a timestamp: the day and whether it is midnight (0) or later in the day (1)
Midnight(day) == [day |-> day, tod |-> 0]
InstantLe(a, b) == a.day < b.day \/ (a.day = b.day /\ a.tod <= b.tod)

(* first_day_of_previous_month and last_day_of_previous_month, each at     *)
(* midnight; with --test, the first day of this month and its last day     *)
InvoicePeriod(test) ==
    LET first_day_of_this_month == FirstDayOfMonth(today)
        last_day_of_previous_month == first_day_of_this_month - 1
        first_day_of_previous_month == FirstDayOfMonth(last_day_of_previous_month)
    IN  IF test
        THEN [first |-> first_day_of_this_month,
              last |-> first_day_of_this_month + DaysPerMonth - 1]
        ELSE [first |-> first_day_of_previous_month,
              last |-> last_day_of_previous_month]

(* Pass.objects.filter(sold_via=retailer_group,                             *)
(* datetime_created__range=(first_day_of_previous_month,                    *)
(* last_day_of_previous_month)): both ends are included                     *)
PassesInRange(group, period) ==
    {p \in DOMAIN passes :
        /\ passes[p].sold_via = group
        /\ InstantLe(Midnight(period.first), passes[p].datetime_created)
        /\ InstantLe(passes[p].datetime_created, Midnight(period.last))}

\* the Pass instance of a sold row, for its price properties
SoldPass(p) ==
    [option |-> passes[p].option, cancellation |-> FALSE, concession |-> passes[p].concession,
     discount_code |-> NoRow, transaction |-> NoRow]

RECURSIVE SumOfSales(_)
\* total_sales += park_pass.price_after_concession_applied.quantize(Decimal("0.01"))
SumOfSales(ps) ==
    IF ps = {} THEN 0
    ELSE LET p == CHOOSE q \in ps : TRUE
         IN  Quantize(PriceAfterConcessionApplied(SoldPass(p))) + SumOfSales(ps \ {p})

\* the figures of the invoice of one retailer group
InvoiceLine(group, period) ==
    LET counted == PassesInRange(group, period)
        total_sales == Quantize(SumOfSales(counted))
        commission_amount == Quantize((total_sales * CommissionPercentage(group)) \div 100)
    IN  [counted |-> counted, pass_count |-> Cardinality(counted),
         total_sales |-> total_sales, commission_amount |-> commission_amount,
         total_payable |-> Quantize(total_sales - commission_amount)]

(* Report.objects.filter(retailer_group=retailer_group,                    *)
(* datetime_created__year=first_day_of_previous_month.year,                *)
(* datetime_created__month=first_day_of_previous_month.month)              *)
ReportsOfMonth(table, group, period) ==
    {r \in DOMAIN table :
        /\ table[r].retailer_group = group
        /\ MonthOf(table[r].datetime_created) = MonthOf(period.first)}

(* Report.objects.create(retailer_group=retailer_group): the row is        *)
(* stamped with the time of its creation                                   *)
NewReport(group) == [retailer_group |-> group, datetime_created |-> today, period |-> None]

(* The end of the loop body for one group: find the Report of the month or *)
(* create one, then store the file names, which carry the invoiced period. *)
(* Nothing is stored for a group without passes ("continue").              *)
SaveReport(group, table, period) ==
    LET found == ReportsOfMonth(table, group, period)
        r == IF found = {} THEN Len(table) + 1 ELSE CHOOSE q \in found : TRUE
        created == IF found = {} THEN Append(table, NewReport(group)) ELSE table
    IN  IF PassesInRange(group, period) = {}
        THEN [outcome |-> "returned", reports |-> table]
        ELSE IF Cardinality(found) > 1
        THEN [outcome |-> "MultipleObjectsReturned", reports |-> table]
        ELSE [outcome |-> "returned",
              reports |-> [created EXCEPT ![r].period = period.first]]

RECURSIVE GenerateInvoices(_, _, _)
\* the loop over the retailer groups, in the order the query returns them
GenerateInvoices(order, table, period) ==
    IF order = <<>> THEN [outcome |-> "returned", reports |-> table]
    ELSE LET done == SaveReport(Head(order), table, period)
         IN  IF done.outcome # "returned" THEN done
             ELSE GenerateInvoices(Tail(order), done.reports, period)

\* the orders in which RetailerGroup.objects.exclude(...) can return the groups
GroupOrders ==
    {o \in [1..Cardinality(RetailerGroups) -> RetailerGroups] :
        \A i, j \in DOMAIN o : o[i] = o[j] => i = j}

\* Command.handle
RunMonthlyInvoices ==
    \E test \in BOOLEAN, order \in GroupOrders :
        LET period == InvoicePeriod(test)
            run == GenerateInvoices(order, reports, period)
        IN  /\ Len(run.reports) <= MaxReports
            /\ reports' = run.reports
            /\ ret' = [op |-> "retailers_generate_monthly_invoices", test |-> test,
                       today |-> today, first |-> period.first, last |-> period.last,
                       lines |-> [g \in RetailerGroups |-> InvoiceLine(g, period)],
                       outcome |-> run.outcome]
            /\ UNCHANGED <<today, windowVars, passVars, voucherVars, arg, writers>>

\* a retailer sells a pass: datetime_created is auto_now_add
SellPass ==
    \E group \in RetailerGroups, tod \in {0, 1}, o \in DOMAIN Options :
        /\ Len(passes) < MaxSold
        /\ passes' = Append(passes, [sold_via |-> group,
                                     datetime_created |-> [day |-> today, tod |-> tod],
                                     option |-> o, concession |-> NoRow])
        /\ UNCHANGED <<today, windowVars, cancellations, passCall, voucherVars,
                       evalVars, writers, reports>>

\* the next day begins
NextDay ==
    /\ today < MaxMonths * DaysPerMonth - 1
    /\ today' = today + 1
    /\ UNCHANGED <<windowVars, passVars, voucherVars, evalVars, writers, reports>>

InitInvoices ==
    /\ today = 0 /\ windows = <<>> /\ winCall = NoCall
    /\ InitPasses /\ InitVouchers /\ InitEval

InvoiceNext == RunMonthlyInvoices \/ SellPass \/ NextDay

SpecInvoices == InitInvoices /\ [][InvoiceNext]_vars

\* the last call was a run of the command
InvoicesRun == ret.op = "retailers_generate_monthly_invoices"

(* ----------------------------------------------------------------- C25 *)
(* C25: however often the command has run for an invoiced month, there is  *)
(* exactly one Report per retailer group with passes in that month (a      *)
(* re-run finds the earlier record and updates it) and none for a group    *)
(* without passes in it.                                                   *)
C25_OneReportPerGroupAndMonth ==
    InvoicesRun =>
        /\ ret.outcome = "returned"
        /\ \A g \in RetailerGroups :
              Cardinality({r \in DOMAIN reports :
                              /\ reports[r].retailer_group = g
                              /\ reports[r].period = ret.first})
                 = IF ret.lines[g].pass_count > 0 THEN 1 ELSE 0

(* ----------------------------------------------------------------- C30 *)
(* C30: a run without --test counts, for each retailer group, every pass   *)
(* sold via the group whose creation timestamp lies in the previous        *)
(* calendar month, first instant to last instant, and no other pass; and   *)
(* total_payable is total_sales minus commission_amount.                   *)
C30_PreviousMonthIsCounted ==
    (InvoicesRun /\ ~ret.test) =>
        \A g \in RetailerGroups :
            /\ ret.lines[g].counted =
                  {p \in DOMAIN passes :
                      /\ passes[p].sold_via = g
                      /\ MonthOf(passes[p].datetime_created.day) = MonthOf(ret.today) - 1}
            /\ ret.lines[g].total_payable
                  = ret.lines[g].total_sales - ret.lines[g].commission_amount
====
